---------------------------- MODULE Spec2Model ----------------------------
(***************************************************************************)
(* Model of the subprocess pipeline engine (package subprocess):           *)
(* Executable trees built from Pipe, And, Or and Background, executed by   *)
(* Pipeline.Run / ExecutableProcess.Run through an ExecutionVisitor.       *)
(*                                                                         *)
(* A goroutine is a stack of frames.  Thread 1 is the caller of the        *)
(* top-level Run; every Background node adds one thread for its job.       *)
(* An OS process is started by Exec, exits on its own (ProcExit) and is    *)
(* killed once the context it was started under is done.                   *)
(*                                                                         *)
(* A process is an uninterpreted transducer: its output is its input       *)
(* followed by its own tag (the path of its leaf), so the captured bytes   *)
(* name the chain of processes they went through.                          *)
(*                                                                         *)
(* Spec runs one tree; BuildSpec is the building interface alone           *)
(* (NewExecutable, the combinators, WithShutdownTimeout) on a heap of      *)
(* nodes that point at their operands.                                     *)
(* LiveSpec is Spec with the runtime's scheduling; DeepSpec runs a few     *)
(* trees larger than MaxNodes; StreamSpec and LiveStreamSpec follow the    *)
(* bytes of one leaf, or of one Pipe of two leaves, through the OS pipes.  *)
(***************************************************************************)
EXTENDS Integers, Sequences, FiniteSets, TLC

\* ------------------------------------------------------------- bounds
\* Largest number of nodes of the tree handed to Run.
MaxNodes == 5
\* Largest number of nodes a building session allocates.
MaxHeap == 3

\* ---------------------------------------------------------- constants
\* NewExecutable's default shutdown timeout, in seconds.
DefaultShutdownTimeout == 5

OpSingle == "single"
OpPipe == "pipe"
OpAnd == "and"
OpOr == "or"
OpBackground == "background"

\* Exit statuses a process may report on its own.
ExitStatuses == {0, 1}
\* ExitError.ExitCode() of a process ended by a signal.
SignalExitCode == 0 - 1

\* ------------------------------------------------------------- errors
\* error values: nil, *exec.ExitError, a start failure, a context error.
Nil == [kind |-> "nil", code |-> 0, src |-> <<>>, wrapped |-> FALSE]
ExitError(code, leaf) == [kind |-> "exit", code |-> code, src |-> leaf, wrapped |-> FALSE]
StartError(leaf) == [kind |-> "start", code |-> 0, src |-> leaf, wrapped |-> FALSE]
CtxError == [kind |-> "ctx", code |-> 0, src |-> <<>>, wrapped |-> FALSE]
\* fmt.Errorf("failed to start process: %w", err)
Wrap(e) == [e EXCEPT !.wrapped = TRUE]

\* ExecutionVisitor.getExitCode, and the same mapping inlined in VisitProcess.
getExitCode(err) ==
  IF err = Nil THEN 0
  ELSE IF err.kind = "exit" THEN err.code
  ELSE 0 - 1

\* ------------------------------------------------------------ results
\* A nil *Result.
NilResult ==
  [Type |-> "nil", Stdout |-> <<>>, Stderr |-> <<>>, ExitCode |-> 0, Error |-> Nil,
   Skipped |-> FALSE, Children |-> <<>>, BackgroundErrors |-> <<>>]

\* &Result{Type: type}: every other field has Go's zero value.
Result(type) == [NilResult EXCEPT !.Type = type]

\* What startProcess and a nested Run hand back: (runner, result, err).
\* runner 0 is a nil *ProcessRunner.
Triple(runner, res, err) == [runner |-> runner, res |-> res, err |-> err]
NoVal == Triple(0, NilResult, Nil)

\* -------------------------------------------------------------- trees
\* NewExecutable: a leaf.
NewExecutable == [operation |-> OpSingle, shutdownTimeout |-> DefaultShutdownTimeout]

\* The combinators of ExecutableProcess and Pipeline: a fresh node whose
\* timeout is the receiver's.
Pipe(e, next) ==
  [operation |-> OpPipe, left |-> e, right |-> next, shutdownTimeout |-> e.shutdownTimeout]
And(e, next) ==
  [operation |-> OpAnd, left |-> e, right |-> next, shutdownTimeout |-> e.shutdownTimeout]
Or(e, next) ==
  [operation |-> OpOr, left |-> e, right |-> next, shutdownTimeout |-> e.shutdownTimeout]
Background(e) ==
  [operation |-> OpBackground, left |-> e, shutdownTimeout |-> e.shutdownTimeout]

\* Every tree of exactly n nodes the combinators can build.
RECURSIVE TreesOfSize(_)
TreesOfSize(n) ==
  IF n = 1 THEN {NewExecutable}
  ELSE {Background(l) : l \in TreesOfSize(n - 1)}
       \cup UNION {{Pipe(l, r) : l \in TreesOfSize(k), r \in TreesOfSize(n - 1 - k)}
                   \cup {And(l, r) : l \in TreesOfSize(k), r \in TreesOfSize(n - 1 - k)}
                   \cup {Or(l, r) : l \in TreesOfSize(k), r \in TreesOfSize(n - 1 - k)}
                   : k \in 1..(n - 2)}

Trees == UNION {TreesOfSize(n) : n \in 1..MaxNodes}

\* A node is named by its path from the root: 1 is left, 2 is right.
RECURSIVE Sub(_, _)
Sub(n, p) ==
  IF p = <<>> THEN n
  ELSE Sub(IF Head(p) = 1 THEN n.left ELSE n.right, Tail(p))

LeftOf(p) == Append(p, 1)
RightOf(p) == Append(p, 2)

\* p is q or lies below q.
IsUnder(p, q) == Len(p) >= Len(q) /\ SubSeq(p, 1, Len(q)) = q

\* A call of the building interface: receiver and argument are pointers
\* (0: none; for WithShutdownTimeout the argument is the timeout).
BuildCall(op, recv, arg, ret) == [op |-> op, recv |-> recv, arg |-> arg, ret |-> ret]
NoCall == BuildCall("none", 0, 0, 0)

\* -------------------------------------------------------------- state
VARIABLES
  tree,       \* the Executable Run is called on
  threads,    \* goroutines: thread -> stack of frames (1 is Run's caller)
  procs,      \* started OS processes, in start order
  ctxDone,    \* context -> whether it is done (1 is the run context)
  jobs,       \* every BackgroundJob created, in creation order
  final,      \* what the top-level Run returned
  returned,   \* whether the top-level Run has returned
  crashed,    \* a nil dereference panicked: the program is gone
  rets,       \* history: what each Run / startNestedPipe call returned
  heap,       \* the nodes the constructors allocated: pointer -> node
  last,       \* the latest constructor or combinator call and what it returned
  cmds,       \* byte level: each exec.Cmd with its program and its three pipes
  visit       \* byte level: the visitor reading, copying and waiting

vars == <<tree, threads, procs, ctxDone, jobs, final, returned, crashed, rets,
          heap, last, cmds, visit>>

\* The byte level at rest: no exec.Cmd, no visitor.
NoVisit ==
  [fn |-> "none", pc |-> "none", output |-> <<>>, copy |-> "none",
   pending |-> <<>>, copyDone |-> FALSE]

\* The byte-level variables, which the runs of whole trees leave alone.
streams == <<cmds, visit>>

NodeAt(p) == Sub(tree, p)
OpAt(p) == NodeAt(p).operation

\* A frame of Run (ExecutableProcess.Run or Pipeline.Run with the visitor it
\* creates), of startNestedPipe, or of a background job's goroutine.
Frame(fn, path, ctx, timeout) ==
  [fn |-> fn, path |-> path, ctx |-> ctx, shutdownTimeout |-> timeout,
   done |-> FALSE, pc |-> "start", backgroundJobs |-> <<>>, i |-> 1,
   L |-> NoVal, R |-> NoVal, rv |-> NoVal, result |-> NilResult]

\* exec.Run(ctx): the callee's visitor takes the callee's own timeout.  The
\* frame of the top-level Run and of a Pipe node (VisitPipe is the one
\* visitor method that consults ctx.Err()) remembers whether ctx was already
\* done when Run was called.
RunFrame(path, ctx) ==
  [Frame("Run", path, ctx, NodeAt(path).shutdownTimeout) EXCEPT
     !.done = ctxDone[ctx] /\ (path = <<>> \/ OpAt(path) = OpPipe)]

Top(t) == threads[t][Len(threads[t])]
Active(t) == t \in DOMAIN threads /\ threads[t] # <<>> /\ ~crashed

\* The bytes a process writes: its input (what the processes copied into
\* its stdin wrote, taken in the order the copies were set up), then its
\* own tag.
RECURSIVE Output(_)
RECURSIVE Outputs(_)
Output(p) == Outputs(procs[p].from) \o <<procs[p].leaf>>
Outputs(s) == IF s = <<>> THEN <<>> ELSE Output(Head(s)) \o Outputs(Tail(s))

\* ProcessRunner.Wait: nil on status 0, else an *exec.ExitError.
WaitError(p) ==
  IF procs[p].status = 0 THEN Nil ELSE ExitError(procs[p].status, procs[p].leaf)

Exited(p) == procs[p].state = "exited"

\* ------------------------------------------------------------ effects
\* The top frame of thread t becomes f.
Goto(t, f) ==
  /\ threads' = [threads EXCEPT ![t][Len(threads[t])] = f]
  /\ UNCHANGED <<final, returned, crashed, rets>>

\* The top frame becomes f and calls callee.
Call(t, f, callee) ==
  /\ threads' = [threads EXCEPT ![t] = Append([@ EXCEPT ![Len(@)] = f], callee)]
  /\ UNCHANGED <<final, returned, crashed, rets>>

\* The top frame returns val to its caller (the top-level Run: to final).
Return(t, val) ==
  LET stk == threads[t]
      n == Len(stk)
      f == stk[n]
  IN /\ threads' = [threads EXCEPT ![t] =
                      IF n = 1 THEN <<>>
                      ELSE [SubSeq(stk, 1, n - 1) EXCEPT ![n - 1].rv = val]]
     /\ rets' = rets \cup {[fn |-> f.fn, path |-> f.path, thread |-> t,
                              ctx |-> f.ctx, done |-> f.done, val |-> val]}
     /\ IF n = 1 /\ t = 1
        THEN final' = val /\ returned' = TRUE
        ELSE UNCHANGED <<final, returned>>
     /\ UNCHANGED crashed

\* A nil pointer is dereferenced: the panic ends the program.
Crash ==
  /\ crashed' = TRUE
  /\ UNCHANGED <<threads, final, returned, rets>>

\* --------------------------------------------------------------- Init
\* The state in which Run is called on one of trees.
RunInit(trees) ==
  /\ tree \in trees
  /\ ctxDone \in {<<FALSE>>, <<TRUE>>}
  /\ threads = << <<RunFrame(<<>>, 1)>> >>
  /\ procs = <<>>
  /\ jobs = <<>>
  /\ final = NoVal
  /\ returned = FALSE
  /\ crashed = FALSE
  /\ rets = {}
  /\ heap = <<>>
  /\ last = NoCall
  /\ cmds = <<>>
  /\ visit = NoVisit

Init == RunInit(Trees)

\* ------------------------------------------------- the result builders
\* Mutant of VisitProcessResult: the exit code is left at its initial 0.
VisitProcessResult_ExitZero(output, err) ==
  [Result(OpSingle) EXCEPT !.Stdout = output, !.Error = err]

\* VisitProcess, after Wait: the Result of a leaf that started.
VisitProcessResult(output, err) ==
  [Result(OpSingle) EXCEPT !.Stdout = output, !.ExitCode = getExitCode(err), !.Error = err]

\* Mutant of VisitProcessStartFailure: the Result does not carry the error.
VisitProcessStartFailure_NoError(err) == [Result(OpSingle) EXCEPT !.ExitCode = 0 - 1]

\* VisitProcess, when Exec failed.
VisitProcessStartFailure(err) ==
  [Result(OpSingle) EXCEPT !.Error = Wrap(err), !.ExitCode = 0 - 1]

\* Mutant of startProcessFailure: the Result carries the error with exit
\* code 0.
startProcessFailure_ExitZero(err) == [Result(OpSingle) EXCEPT !.Error = err]

\* startProcess, when Exec failed.
startProcessFailure(err) ==
  [Result(OpSingle) EXCEPT !.Error = err, !.ExitCode = 0 - 1]

\* Mutant of SkippedResult: the synthetic child carries an exit code.
SkippedResult_ExitOne == [Result(OpSingle) EXCEPT !.Skipped = TRUE, !.ExitCode = 1]

\* The synthetic child VisitAnd and VisitOr append for the operand not run.
SkippedResult == [Result(OpSingle) EXCEPT !.Skipped = TRUE]

\* Mutant of VisitAndSkips: only the exit code is looked at.
VisitAndSkips_ExitCodeOnly(err, leftResult) == leftResult.ExitCode # 0

\* VisitAnd: "if err != nil || leftResult.ExitCode != 0".
VisitAndSkips(err, leftResult) == err # Nil \/ leftResult.ExitCode # 0

\* VisitAnd, left failed: the Result mirrors left.
VisitAndSkipped(leftResult) ==
  [Result(OpAnd) EXCEPT !.Children = <<leftResult, SkippedResult>>,
                        !.ExitCode = leftResult.ExitCode,
                        !.Error = leftResult.Error,
                        !.Stdout = leftResult.Stdout,
                        !.Stderr = leftResult.Stderr]

\* Mutant of VisitAndBoth: the Result goes on mirroring left.
VisitAndBoth_MirrorsLeft(leftResult, rightResult) ==
  [Result(OpAnd) EXCEPT !.Children = <<leftResult, rightResult>>,
                        !.ExitCode = leftResult.ExitCode,
                        !.Error = leftResult.Error,
                        !.Stdout = leftResult.Stdout,
                        !.Stderr = leftResult.Stderr]

\* VisitAnd, left succeeded: the Result mirrors right.
VisitAndBoth(leftResult, rightResult) ==
  [Result(OpAnd) EXCEPT !.Children = <<leftResult, rightResult>>,
                        !.ExitCode = rightResult.ExitCode,
                        !.Error = rightResult.Error,
                        !.Stdout = rightResult.Stdout,
                        !.Stderr = rightResult.Stderr]

\* Mutant of VisitOrSkips: VisitAnd's condition, pasted.
VisitOrSkips_Inverted(err, leftResult) == err # Nil \/ leftResult.ExitCode # 0

\* VisitOr: "if err == nil && leftResult.ExitCode == 0".
VisitOrSkips(err, leftResult) == err = Nil /\ leftResult.ExitCode = 0

\* Mutant of VisitOrSkipped: left's output is not carried over.
VisitOrSkipped_NoOutput(leftResult) ==
  [Result(OpOr) EXCEPT !.Children = <<leftResult, SkippedResult>>,
                       !.ExitCode = leftResult.ExitCode]

\* VisitOr, left succeeded: Error stays nil.
VisitOrSkipped(leftResult) ==
  [Result(OpOr) EXCEPT !.Children = <<leftResult, SkippedResult>>,
                       !.ExitCode = leftResult.ExitCode,
                       !.Stdout = leftResult.Stdout,
                       !.Stderr = leftResult.Stderr]

\* VisitOr: "if rightErr == nil && rightResult.ExitCode == 0".
VisitOrRecovers(rightErr, rightResult) == rightErr = Nil /\ rightResult.ExitCode = 0

\* Mutant of VisitOrBoth: left's error is not suppressed.
VisitOrBoth_KeepsLeftError(leftResult, rightResult, rightErr) ==
  [Result(OpOr) EXCEPT !.Children = <<leftResult, rightResult>>,
                       !.ExitCode = rightResult.ExitCode,
                       !.Stdout = rightResult.Stdout,
                       !.Stderr = rightResult.Stderr,
                       !.Error = IF rightResult.Error # Nil
                                 THEN rightResult.Error ELSE leftResult.Error]

\* VisitOr, left failed: the Result mirrors right.
VisitOrBoth(leftResult, rightResult, rightErr) ==
  [Result(OpOr) EXCEPT !.Children = <<leftResult, rightResult>>,
                       !.ExitCode = rightResult.ExitCode,
                       !.Stdout = rightResult.Stdout,
                       !.Stderr = rightResult.Stderr,
                       !.Error = IF VisitOrRecovers(rightErr, rightResult)
                                 THEN Nil ELSE rightResult.Error]

\* VisitOr, left failed: the error returned beside the Result.
VisitOrError(rightErr, rightResult) ==
  IF VisitOrRecovers(rightErr, rightResult) THEN Nil ELSE rightErr

\* VisitBackground: the placeholder.
VisitBackgroundResult == [Result(OpBackground) EXCEPT !.ExitCode = 0]

\* executePipe: the Results it builds for the two runners it waited for.
executePipeLeftResult(leftErr) ==
  [Result(OpSingle) EXCEPT !.ExitCode = getExitCode(leftErr), !.Error = leftErr]
executePipeRightResult(output, rightErr) ==
  [Result(OpSingle) EXCEPT !.Stdout = output, !.ExitCode = getExitCode(rightErr),
                           !.Error = rightErr]

\* Mutant of executePipeError: right's error is looked at first.
executePipeError_RightFirst(leftErr, rightErr) ==
  IF rightErr # Nil THEN rightErr
  ELSE IF leftErr # Nil THEN leftErr
  ELSE Nil

\* executePipe: "Return first error (fail-fast)".
executePipeError(leftErr, rightErr) ==
  IF leftErr # Nil THEN leftErr
  ELSE IF rightErr # Nil THEN rightErr
  ELSE Nil

\* executePipe, left failed to start: the Result standing for right.
executePipeNoRight == [Result(OpSingle) EXCEPT !.ExitCode = 0 - 1]

\* startNestedPipe, an operand failed to start.
startNestedPipeFailure(err) ==
  [Result(OpPipe) EXCEPT !.Error = err, !.ExitCode = 0 - 1]

\* VisitPipe: the Result built from executePipe's two Results and error.
VisitPipeResult(leftResult, rightResult, err) ==
  IF err # Nil
  THEN [Result(OpPipe) EXCEPT
          !.Children = <<leftResult, rightResult>>,
          !.Error = err,
          !.ExitCode = IF leftResult.Error # Nil THEN leftResult.ExitCode
                       ELSE rightResult.ExitCode,
          !.Stderr = IF leftResult.Error # Nil THEN leftResult.Stderr
                     ELSE rightResult.Stderr]
  ELSE [Result(OpPipe) EXCEPT
          !.Children = <<leftResult, rightResult>>,
          !.Stdout = rightResult.Stdout,
          !.Stderr = rightResult.Stderr,
          !.ExitCode = rightResult.ExitCode]

\* Mutant of VisitPipeCancelled: the Result does not carry the error.
VisitPipeCancelled_NoError == Result(OpPipe)

\* VisitPipe, context already done.
VisitPipeCancelled == [Result(OpPipe) EXCEPT !.Error = CtxError]

\* Mutant of CollectBackgroundError: the job's failure becomes the Result's.
CollectBackgroundError_Escalates(result, bgResult) ==
  IF bgResult.Error # Nil
  THEN [result EXCEPT !.BackgroundErrors = Append(@, bgResult.Error),
                      !.Error = bgResult.Error,
                      !.ExitCode = bgResult.ExitCode]
  ELSE result

\* WaitForBackground, a job completed: its error, if any, is appended.
CollectBackgroundError(result, bgResult) ==
  IF bgResult.Error # Nil
  THEN [result EXCEPT !.BackgroundErrors = Append(@, bgResult.Error)]
  ELSE result

\* ------------------------------------------------------ Process.Exec
\* Exec fails when the command cannot be spawned, and cmd.Start refuses a
\* context that is already done.
ExecError(leaf, ctx, spawnOk) ==
  IF ~spawnOk THEN StartError(leaf)
  ELSE IF ctxDone[ctx] THEN CtxError
  ELSE Nil

\* The running process Exec returns a runner for.
NewProcess(leaf, ctx) ==
  [leaf |-> leaf, ctx |-> ctx, state |-> "running", status |-> 0, from |-> <<>>,
   waited |-> FALSE, signals |-> <<>>]

\* Mutant of Finish: Run returns without WaitForBackground.
Finish_NoDrain(t, f, res, err) == Return(t, Triple(0, res, err))

\* Pipeline.Run's tail: "if err == nil { visitor.WaitForBackground(result) }",
\* which returns at once when the visitor tracks no job.
Finish(t, f, res, err) ==
  IF err = Nil /\ Len(f.backgroundJobs) > 0
  THEN Goto(t, [f EXCEPT !.pc = "drain", !.result = res, !.i = 1])
  ELSE Return(t, Triple(0, res, err))

\* ------------------------------------------------------ VisitProcess
\* ExecutableProcess.Run -> VisitProcess: Exec.
VisitProcessExec(t) ==
  /\ Active(t)
  /\ LET f == Top(t) IN
     /\ f.fn = "Run" /\ f.pc = "start" /\ OpAt(f.path) = OpSingle
     /\ \E spawnOk \in BOOLEAN :
          LET err == ExecError(f.path, f.ctx, spawnOk) IN
          IF err # Nil
          THEN /\ Return(t, Triple(0, VisitProcessStartFailure(err), err))
               /\ UNCHANGED procs
          ELSE /\ procs' = Append(procs, NewProcess(f.path, f.ctx))
               /\ Goto(t, [f EXCEPT !.pc = "wait",
                                    !.L = Triple(Len(procs) + 1, NilResult, Nil)])
  /\ UNCHANGED <<streams, heap, last, tree, ctxDone, jobs>>

\* VisitProcess: io.ReadAll to the end of the combined stream, then Wait.
VisitProcessWait(t) ==
  /\ Active(t)
  /\ LET f == Top(t)
         p == f.L.runner
     IN /\ f.fn = "Run" /\ f.pc = "wait" /\ OpAt(f.path) = OpSingle
        /\ Exited(p)
        /\ procs' = [procs EXCEPT ![p].waited = TRUE]
        /\ Return(t, Triple(0, VisitProcessResult(Output(p), WaitError(p)), WaitError(p)))
  /\ UNCHANGED <<streams, heap, last, tree, ctxDone, jobs>>

\* ---------------------------------------------------------- VisitAnd
\* Pipeline.Run -> VisitAnd: left.Run(v.ctx).
VisitAndLeft(t) ==
  /\ Active(t)
  /\ LET f == Top(t) IN
     /\ f.fn = "Run" /\ f.pc = "start" /\ OpAt(f.path) = OpAnd
     /\ Call(t, [f EXCEPT !.pc = "left"], RunFrame(LeftOf(f.path), f.ctx))
  /\ UNCHANGED <<streams, heap, last, tree, procs, ctxDone, jobs>>

\* VisitAnd, left returned: skip right, or right.Run(v.ctx).
VisitAndRight(t) ==
  /\ Active(t)
  /\ LET f == Top(t)
         leftResult == f.rv.res
     IN /\ f.fn = "Run" /\ f.pc = "left" /\ OpAt(f.path) = OpAnd
        /\ IF VisitAndSkips(f.rv.err, leftResult)
           THEN Finish(t, f, VisitAndSkipped(leftResult), leftResult.Error)
           ELSE Call(t, [f EXCEPT !.pc = "right", !.L = f.rv],
                     RunFrame(RightOf(f.path), f.ctx))
  /\ UNCHANGED <<streams, heap, last, tree, procs, ctxDone, jobs>>

\* VisitAnd, right returned.
VisitAndDone(t) ==
  /\ Active(t)
  /\ LET f == Top(t) IN
     /\ f.fn = "Run" /\ f.pc = "right" /\ OpAt(f.path) = OpAnd
     /\ Finish(t, f, VisitAndBoth(f.L.res, f.rv.res), f.rv.err)
  /\ UNCHANGED <<streams, heap, last, tree, procs, ctxDone, jobs>>

\* ----------------------------------------------------------- VisitOr
\* Pipeline.Run -> VisitOr: left.Run(v.ctx).
VisitOrLeft(t) ==
  /\ Active(t)
  /\ LET f == Top(t) IN
     /\ f.fn = "Run" /\ f.pc = "start" /\ OpAt(f.path) = OpOr
     /\ Call(t, [f EXCEPT !.pc = "left"], RunFrame(LeftOf(f.path), f.ctx))
  /\ UNCHANGED <<streams, heap, last, tree, procs, ctxDone, jobs>>

\* VisitOr, left returned: skip right, or right.Run(v.ctx).
VisitOrRight(t) ==
  /\ Active(t)
  /\ LET f == Top(t)
         leftResult == f.rv.res
     IN /\ f.fn = "Run" /\ f.pc = "left" /\ OpAt(f.path) = OpOr
        /\ IF VisitOrSkips(f.rv.err, leftResult)
           THEN Finish(t, f, VisitOrSkipped(leftResult), Nil)
           ELSE Call(t, [f EXCEPT !.pc = "right", !.L = f.rv],
                     RunFrame(RightOf(f.path), f.ctx))
  /\ UNCHANGED <<streams, heap, last, tree, procs, ctxDone, jobs>>

\* VisitOr, right returned.
VisitOrDone(t) ==
  /\ Active(t)
  /\ LET f == Top(t) IN
     /\ f.fn = "Run" /\ f.pc = "right" /\ OpAt(f.path) = OpOr
     /\ Finish(t, f, VisitOrBoth(f.L.res, f.rv.res, f.rv.err),
               VisitOrError(f.rv.err, f.rv.res))
  /\ UNCHANGED <<streams, heap, last, tree, procs, ctxDone, jobs>>

\* --------------------------------------------------- VisitBackground
\* Pipeline.Run -> VisitBackground: a context of its own, the job, the
\* goroutine that runs exec.Run(bgCtx), the placeholder Result.
VisitBackground(t) ==
  /\ Active(t)
  /\ LET f == Top(t)
         bgCtx == Len(ctxDone) + 1
         job == Len(jobs) + 1
         g == [Frame("job", LeftOf(f.path), bgCtx, f.shutdownTimeout) EXCEPT !.i = job]
         f2 == [f EXCEPT !.backgroundJobs = Append(@, job)]
     IN /\ f.fn = "Run" /\ f.pc = "start" /\ OpAt(f.path) = OpBackground
        /\ ctxDone' = Append(ctxDone, FALSE)
        /\ jobs' = Append(jobs, [exec |-> LeftOf(f.path), ctx |-> bgCtx, done |-> <<>>,
                                 visitor |-> f.path, launcher |-> t,
                                 thread |-> Len(threads) + 1,
                                 cancelled |-> FALSE, abandoned |-> FALSE])
        /\ threads' = Append([threads EXCEPT ![t][Len(threads[t])] =
                                [f2 EXCEPT !.pc = "visited", !.result = VisitBackgroundResult]],
                             <<g>>)
  /\ UNCHANGED <<streams, heap, last, tree, procs, final, returned, crashed, rets>>

\* Pipeline.Run, VisitBackground returned (result, nil): the tail of Run.
RunAfterVisitBackground(t) ==
  /\ Active(t)
  /\ LET f == Top(t) IN
     /\ f.fn = "Run" /\ f.pc = "visited" /\ OpAt(f.path) = OpBackground
     /\ Finish(t, f, f.result, Nil)
  /\ UNCHANGED <<streams, heap, last, tree, procs, ctxDone, jobs>>

\* The job's goroutine: exec.Run(bgCtx).
JobRun(t) ==
  /\ Active(t)
  /\ LET f == Top(t) IN
     /\ f.fn = "job" /\ f.pc = "start"
     /\ Call(t, [f EXCEPT !.pc = "send"], RunFrame(f.path, f.ctx))
  /\ UNCHANGED <<streams, heap, last, tree, procs, ctxDone, jobs>>

\* Mutant of JobSend: the channel has no slot, the send needs the drain to
\* be receiving from it.
JobSend_Unbuffered(t) ==
  /\ Active(t)
  /\ LET f == Top(t) IN
     /\ f.fn = "job" /\ f.pc = "send"
     /\ Len(jobs[f.i].done) < 1
     /\ \E u \in DOMAIN threads :
          /\ Active(u) /\ Top(u).fn = "Run" /\ Top(u).pc \in {"drain", "grace"}
          /\ Top(u).backgroundJobs[Top(u).i] = f.i
     /\ jobs' = [jobs EXCEPT ![f.i].done = Append(@, f.rv.res)]
     /\ Return(t, f.rv)
  /\ UNCHANGED <<streams, heap, last, tree, procs, ctxDone>>

\* The job's goroutine: "job.done <- result" on the one-slot channel.
JobSend(t) ==
  /\ Active(t)
  /\ LET f == Top(t) IN
     /\ f.fn = "job" /\ f.pc = "send"
     /\ Len(jobs[f.i].done) < 1
     /\ jobs' = [jobs EXCEPT ![f.i].done = Append(@, f.rv.res)]
     /\ Return(t, f.rv)
  /\ UNCHANGED <<streams, heap, last, tree, procs, ctxDone>>

\* ------------------------------------------------- WaitForBackground
\* The loop goes on to the next job, or WaitForBackground and Run return.
DrainNext(t, f) ==
  IF f.i > Len(f.backgroundJobs)
  THEN Return(t, Triple(0, f.result, Nil))
  ELSE Goto(t, f)

\* Mutant of WaitForBackgroundDone: the drain moves on without receiving
\* from the job's channel.
WaitForBackgroundDone_Skips(t) ==
  /\ Active(t)
  /\ LET f == Top(t) IN
     /\ f.fn = "Run" /\ f.pc = "drain"
     /\ DrainNext(t, [f EXCEPT !.i = @ + 1])
  /\ UNCHANGED <<streams, heap, last, tree, procs, ctxDone, jobs>>

\* The first select, "case bgResult := <-job.done".
WaitForBackgroundDone(t) ==
  /\ Active(t)
  /\ LET f == Top(t)
         job == f.backgroundJobs[f.i]
     IN /\ f.fn = "Run" /\ f.pc = "drain"
        /\ jobs[job].done # <<>>
        /\ jobs' = [jobs EXCEPT ![job].done = Tail(@)]
        /\ DrainNext(t, [f EXCEPT !.i = @ + 1,
                                  !.result = CollectBackgroundError(@, Head(jobs[job].done))])
  /\ UNCHANGED <<streams, heap, last, tree, procs, ctxDone>>

\* The first select, "case <-v.ctx.Done()": job.cancel().
WaitForBackgroundCancel(t) ==
  /\ Active(t)
  /\ LET f == Top(t)
         job == f.backgroundJobs[f.i]
     IN /\ f.fn = "Run" /\ f.pc = "drain"
        /\ ctxDone[f.ctx]
        /\ ctxDone' = [ctxDone EXCEPT ![jobs[job].ctx] = TRUE]
        /\ jobs' = [jobs EXCEPT ![job].cancelled = TRUE]
        /\ Goto(t, [f EXCEPT !.pc = "grace"])
  /\ UNCHANGED <<streams, heap, last, tree, procs>>

\* The second select, "case <-job.done": the job's Result is dropped.
WaitForBackgroundGraceDone(t) ==
  /\ Active(t)
  /\ LET f == Top(t)
         job == f.backgroundJobs[f.i]
     IN /\ f.fn = "Run" /\ f.pc = "grace"
        /\ jobs[job].done # <<>>
        /\ jobs' = [jobs EXCEPT ![job].done = Tail(@)]
        /\ DrainNext(t, [f EXCEPT !.i = @ + 1, !.pc = "drain"])
  /\ UNCHANGED <<streams, heap, last, tree, procs, ctxDone>>

\* Mutant of WaitForBackgroundTimeout: the second wait has no timeout
\* branch, it ends only with the job.
WaitForBackgroundTimeout_WaitsForJob(t) ==
  /\ Active(t)
  /\ LET f == Top(t)
         job == f.backgroundJobs[f.i]
     IN /\ f.fn = "Run" /\ f.pc = "grace"
        /\ jobs[job].done # <<>>
        /\ jobs' = [jobs EXCEPT ![job].abandoned = TRUE]
        /\ DrainNext(t, [f EXCEPT !.i = @ + 1, !.pc = "drain"])
  /\ UNCHANGED <<streams, heap, last, tree, procs, ctxDone>>

\* The second select, "case <-time.After(v.shutdownTimeout)": the job is left.
WaitForBackgroundTimeout(t) ==
  /\ Active(t)
  /\ LET f == Top(t)
         job == f.backgroundJobs[f.i]
     IN /\ f.fn = "Run" /\ f.pc = "grace"
        /\ jobs' = [jobs EXCEPT ![job].abandoned = TRUE]
        /\ DrainNext(t, [f EXCEPT !.i = @ + 1, !.pc = "drain"])
  /\ UNCHANGED <<streams, heap, last, tree, procs, ctxDone>>

\* ------------------------------------------------------ startProcess
\* startProcess(x), called from frame f of thread t (f already holds the
\* caller's next pc): a leaf is started here, a Pipe goes to startNestedPipe,
\* anything else is run to its end by x.Run(v.ctx), which yields no runner.
startProcess(t, f, x) ==
  IF OpAt(x) = OpSingle
  THEN \E spawnOk \in BOOLEAN :
         LET err == ExecError(x, f.ctx, spawnOk) IN
         IF err # Nil
         THEN /\ Goto(t, [f EXCEPT !.rv = Triple(0, startProcessFailure(err), err)])
              /\ UNCHANGED procs
         ELSE /\ procs' = Append(procs, NewProcess(x, f.ctx))
              /\ Goto(t, [f EXCEPT !.rv = Triple(Len(procs) + 1, NilResult, Nil)])
  ELSE IF OpAt(x) = OpPipe
  THEN /\ Call(t, f, Frame("startNestedPipe", x, f.ctx, f.shutdownTimeout))
       /\ UNCHANGED procs
  ELSE /\ Call(t, f, RunFrame(x, f.ctx))
       /\ UNCHANGED procs

\* "go func() { io.Copy(right, left); right.Close() }()": left's output is
\* copied into right's stdin, next to whatever is already copied there.
Connect(left, right) == [procs EXCEPT ![right].from = Append(@, left)]

\* ------------------------------------------------- startNestedPipe
\* startNestedPipe: startProcess(p.left).
startNestedPipeLeft(t) ==
  /\ Active(t)
  /\ LET f == Top(t) IN
     /\ f.fn = "startNestedPipe" /\ f.pc = "start"
     /\ startProcess(t, [f EXCEPT !.pc = "right"], LeftOf(f.path))
  /\ UNCHANGED <<streams, heap, last, tree, ctxDone, jobs>>

\* startNestedPipe: left's error, or startProcess(p.right).
startNestedPipeRight(t) ==
  /\ Active(t)
  /\ LET f == Top(t) IN
     /\ f.fn = "startNestedPipe" /\ f.pc = "right"
     /\ IF f.rv.err # Nil
        THEN /\ Return(t, Triple(0, startNestedPipeFailure(f.rv.err), f.rv.err))
             /\ UNCHANGED procs
        ELSE startProcess(t, [f EXCEPT !.pc = "copy", !.L = f.rv], RightOf(f.path))
  /\ UNCHANGED <<streams, heap, last, tree, ctxDone, jobs>>

\* startNestedPipe: right's error, or the copy goroutine and the right
\* runner.  The goroutine dereferences both runners: a nil one panics.
startNestedPipeCopy(t) ==
  /\ Active(t)
  /\ LET f == Top(t) IN
     /\ f.fn = "startNestedPipe" /\ f.pc = "copy"
     /\ IF f.rv.err # Nil
        THEN /\ Return(t, Triple(0, startNestedPipeFailure(f.rv.err), f.rv.err))
             /\ UNCHANGED procs
        ELSE IF f.L.runner = 0 \/ f.rv.runner = 0
        THEN Crash /\ UNCHANGED procs
        ELSE /\ procs' = Connect(f.L.runner, f.rv.runner)
             /\ Return(t, Triple(f.rv.runner, NilResult, Nil))
  /\ UNCHANGED <<streams, heap, last, tree, ctxDone, jobs>>

\* --------------------------------------------- VisitPipe, executePipe
\* VisitPipe after executePipe: on an error it reads leftResult.Error,
\* which panics when leftResult is nil.
VisitPipeFinish(t, f, leftResult, rightResult, err) ==
  IF err # Nil /\ leftResult = NilResult
  THEN Crash
  ELSE Finish(t, f, VisitPipeResult(leftResult, rightResult, err), err)

\* Pipeline.Run -> VisitPipe: the context check, then executePipe's
\* startProcess(left).
VisitPipe(t) ==
  /\ Active(t)
  /\ LET f == Top(t) IN
     /\ f.fn = "Run" /\ f.pc = "start" /\ OpAt(f.path) = OpPipe
     /\ IF ctxDone[f.ctx]
        THEN /\ Finish(t, f, VisitPipeCancelled, CtxError)
             /\ UNCHANGED procs
        ELSE startProcess(t, [f EXCEPT !.pc = "right"], LeftOf(f.path))
  /\ UNCHANGED <<streams, heap, last, tree, ctxDone, jobs>>

\* executePipe: left's error, or startProcess(right).
executePipeRight(t) ==
  /\ Active(t)
  /\ LET f == Top(t) IN
     /\ f.fn = "Run" /\ f.pc = "right" /\ OpAt(f.path) = OpPipe
     /\ IF f.rv.err # Nil
        THEN /\ VisitPipeFinish(t, f, f.rv.res, executePipeNoRight, f.rv.err)
             /\ UNCHANGED procs
        ELSE startProcess(t, [f EXCEPT !.pc = "copy", !.L = f.rv], RightOf(f.path))
  /\ UNCHANGED <<streams, heap, last, tree, ctxDone, jobs>>

\* executePipe: right's error, or the copy goroutine and io.ReadAll of the
\* right runner, each of which dereferences the runners.
executePipeCopy(t) ==
  /\ Active(t)
  /\ LET f == Top(t) IN
     /\ f.fn = "Run" /\ f.pc = "copy" /\ OpAt(f.path) = OpPipe
     /\ IF f.rv.err # Nil
        THEN /\ VisitPipeFinish(t, f, f.L.res, f.rv.res, f.rv.err)
             /\ UNCHANGED procs
        ELSE IF f.L.runner = 0 \/ f.rv.runner = 0
        THEN Crash /\ UNCHANGED procs
        ELSE /\ procs' = Connect(f.L.runner, f.rv.runner)
             /\ Goto(t, [f EXCEPT !.pc = "wait", !.R = f.rv])
  /\ UNCHANGED <<streams, heap, last, tree, ctxDone, jobs>>

\* executePipe: ReadAll of right, <-copyDone, leftRunner.Wait(),
\* rightRunner.Wait(): all through once both runners' processes have exited.
executePipeWait(t) ==
  /\ Active(t)
  /\ LET f == Top(t)
         l == f.L.runner
         r == f.R.runner
         leftErr == WaitError(l)
         rightErr == WaitError(r)
     IN /\ f.fn = "Run" /\ f.pc = "wait" /\ OpAt(f.path) = OpPipe
        /\ Exited(l) /\ Exited(r)
        /\ procs' = [procs EXCEPT ![l].waited = TRUE, ![r].waited = TRUE]
        /\ VisitPipeFinish(t, f, executePipeLeftResult(leftErr),
                           executePipeRightResult(Output(r), rightErr),
                           executePipeError(leftErr, rightErr))
  /\ UNCHANGED <<streams, heap, last, tree, ctxDone, jobs>>

\* ------------------------------------------------------ environment
\* Mutant of ProcExit: the context a process was started under is not
\* bound to it, the process ends only by itself.
ProcExit_NoKill(p) ==
  /\ ~crashed
  /\ p \in DOMAIN procs
  /\ procs[p].state = "running"
  /\ \E s \in ExitStatuses :
       procs' = [procs EXCEPT ![p].state = "exited", ![p].status = s]
  /\ UNCHANGED <<streams, heap, last, tree, threads, ctxDone, jobs, final, returned, crashed, rets>>

\* A running process exits: with a status of its own, or killed, once the
\* context it was started under is done (exec.CommandContext: "the provided
\* context is used to kill the process (by calling os.Process.Kill)").
\* Nothing else signals a process: no caller of gracefulShutdown exists.
ProcExit(p) ==
  /\ ~crashed
  /\ p \in DOMAIN procs
  /\ procs[p].state = "running"
  /\ \E s \in ExitStatuses \cup (IF ctxDone[procs[p].ctx] THEN {SignalExitCode} ELSE {}) :
       procs' = [procs EXCEPT ![p].state = "exited", ![p].status = s,
                              ![p].signals = IF s = SignalExitCode
                                             THEN Append(@, "SIGKILL") ELSE @]
  /\ UNCHANGED <<streams, heap, last, tree, threads, ctxDone, jobs, final, returned, crashed, rets>>

\* Mutant of Cancel: the cancellation reaches the contexts of the
\* background jobs as well.
Cancel_Propagates ==
  /\ ~crashed /\ ~returned
  /\ ~ctxDone[1]
  /\ ctxDone' = [c \in DOMAIN ctxDone |-> TRUE]
  /\ UNCHANGED <<streams, heap, last, tree, threads, procs, jobs, final, returned, crashed, rets>>

\* Run's caller cancels the run context, at any moment before Run returns.
Cancel ==
  /\ ~crashed /\ ~returned
  /\ ~ctxDone[1]
  /\ ctxDone' = [ctxDone EXCEPT ![1] = TRUE]
  /\ UNCHANGED <<streams, heap, last, tree, threads, procs, jobs, final, returned, crashed, rets>>

\* --------------------------------------------------------------- Next
Next ==
  \/ \E t \in DOMAIN threads : VisitProcessExec(t)
  \/ \E t \in DOMAIN threads : VisitProcessWait(t)
  \/ \E t \in DOMAIN threads : VisitAndLeft(t)
  \/ \E t \in DOMAIN threads : VisitAndRight(t)
  \/ \E t \in DOMAIN threads : VisitAndDone(t)
  \/ \E t \in DOMAIN threads : VisitOrLeft(t)
  \/ \E t \in DOMAIN threads : VisitOrRight(t)
  \/ \E t \in DOMAIN threads : VisitOrDone(t)
  \/ \E t \in DOMAIN threads : VisitBackground(t)
  \/ \E t \in DOMAIN threads : RunAfterVisitBackground(t)
  \/ \E t \in DOMAIN threads : JobRun(t)
  \/ \E t \in DOMAIN threads : JobSend(t)
  \/ \E t \in DOMAIN threads : WaitForBackgroundDone(t)
  \/ \E t \in DOMAIN threads : WaitForBackgroundCancel(t)
  \/ \E t \in DOMAIN threads : WaitForBackgroundGraceDone(t)
  \/ \E t \in DOMAIN threads : WaitForBackgroundTimeout(t)
  \/ \E t \in DOMAIN threads : startNestedPipeLeft(t)
  \/ \E t \in DOMAIN threads : startNestedPipeRight(t)
  \/ \E t \in DOMAIN threads : startNestedPipeCopy(t)
  \/ \E t \in DOMAIN threads : VisitPipe(t)
  \/ \E t \in DOMAIN threads : executePipeRight(t)
  \/ \E t \in DOMAIN threads : executePipeCopy(t)
  \/ \E t \in DOMAIN threads : executePipeWait(t)
  \/ \E p \in DOMAIN procs : ProcExit(p)
  \/ Cancel

Spec == Init /\ [][Next]_vars

\* ===================================================================
\* Building: the constructors and combinators, on a heap of nodes
\* ===================================================================
\* Timeouts handed to WithShutdownTimeout.
Timeouts == {1, DefaultShutdownTimeout}

\* The node a combinator's composite literal describes, its operands held
\* as pointers.
PointerNode(node, e, next) ==
  IF node.operation = OpBackground
  THEN [node EXCEPT !.left = e]
  ELSE [node EXCEPT !.left = e, !.right = next]

\* Mutant of NewNode: the composite is written over the receiver.
NewNode_OverReceiver(h, node) == [h EXCEPT ![node.left] = node]

\* "&Pipeline{...}": a fresh object.
NewNode(h, node) == Append(h, node)

BuildInit ==
  /\ heap = <<>>
  /\ last = NoCall
  /\ tree = NewExecutable
  /\ threads = << <<>> >>
  /\ procs = <<>>
  /\ ctxDone = <<FALSE>>
  /\ jobs = <<>>
  /\ final = NoVal
  /\ returned = FALSE
  /\ crashed = FALSE
  /\ rets = {}
  /\ cmds = <<>>
  /\ visit = NoVisit

\* What no call of the building interface touches.
BuildFrame ==
  UNCHANGED <<tree, threads, procs, ctxDone, jobs, final, returned, crashed, rets,
              streams>>

\* NewExecutable(cmd, args...).
BuildNewExecutable ==
  /\ Len(heap) < MaxHeap
  /\ heap' = Append(heap, NewExecutable)
  /\ last' = BuildCall("NewExecutable", 0, 0, Len(heap) + 1)
  /\ BuildFrame

\* e.Pipe(next), for e an ExecutableProcess or a Pipeline.
BuildPipe ==
  /\ Len(heap) < MaxHeap
  /\ \E e \in DOMAIN heap, next \in DOMAIN heap :
       /\ heap' = NewNode(heap, PointerNode(Pipe(heap[e], heap[next]), e, next))
       /\ last' = BuildCall("Pipe", e, next, Len(heap) + 1)
  /\ BuildFrame

\* e.And(next).
BuildAnd ==
  /\ Len(heap) < MaxHeap
  /\ \E e \in DOMAIN heap, next \in DOMAIN heap :
       /\ heap' = NewNode(heap, PointerNode(And(heap[e], heap[next]), e, next))
       /\ last' = BuildCall("And", e, next, Len(heap) + 1)
  /\ BuildFrame

\* e.Or(next).
BuildOr ==
  /\ Len(heap) < MaxHeap
  /\ \E e \in DOMAIN heap, next \in DOMAIN heap :
       /\ heap' = NewNode(heap, PointerNode(Or(heap[e], heap[next]), e, next))
       /\ last' = BuildCall("Or", e, next, Len(heap) + 1)
  /\ BuildFrame

\* e.Background().
BuildBackground ==
  /\ Len(heap) < MaxHeap
  /\ \E e \in DOMAIN heap :
       /\ heap' = NewNode(heap, PointerNode(Background(heap[e]), e, 0))
       /\ last' = BuildCall("Background", e, 0, Len(heap) + 1)
  /\ BuildFrame

\* e.WithShutdownTimeout(timeout): "e.shutdownTimeout = timeout; return e".
BuildWithShutdownTimeout ==
  /\ \E e \in DOMAIN heap, timeout \in Timeouts :
       /\ heap' = [heap EXCEPT ![e].shutdownTimeout = timeout]
       /\ last' = BuildCall("WithShutdownTimeout", e, timeout, e)
  /\ BuildFrame

BuildNext ==
  \/ BuildNewExecutable
  \/ BuildPipe
  \/ BuildAnd
  \/ BuildOr
  \/ BuildBackground
  \/ BuildWithShutdownTimeout

BuildSpec == BuildInit /\ [][BuildNext]_vars

\* Any step of thread t.
ThreadStep(t) ==
  \/ VisitProcessExec(t) \/ VisitProcessWait(t)
  \/ VisitAndLeft(t) \/ VisitAndRight(t) \/ VisitAndDone(t)
  \/ VisitOrLeft(t) \/ VisitOrRight(t) \/ VisitOrDone(t)
  \/ VisitBackground(t) \/ RunAfterVisitBackground(t)
  \/ JobRun(t) \/ JobSend(t)
  \/ WaitForBackgroundDone(t) \/ WaitForBackgroundCancel(t)
  \/ WaitForBackgroundGraceDone(t) \/ WaitForBackgroundTimeout(t)
  \/ startNestedPipeLeft(t) \/ startNestedPipeRight(t) \/ startNestedPipeCopy(t)
  \/ VisitPipe(t) \/ executePipeRight(t) \/ executePipeCopy(t) \/ executePipeWait(t)

\* The kill of process p by its context.
KillExit(p) ==
  /\ p \in DOMAIN procs
  /\ ctxDone[procs[p].ctx]
  /\ ProcExit(p)
  /\ procs'[p].status = SignalExitCode

\* Spec with the scheduling the runtime gives: a goroutine that can step
\* eventually does, and a process whose context is done is eventually
\* killed.  Nothing makes a process exit by itself, nor the caller cancel.
LiveSpec ==
  /\ Spec
  /\ \A t \in 1..MaxNodes : WF_vars(ThreadStep(t))
  /\ \A p \in 1..MaxNodes : WF_vars(KillExit(p))

\* e.WithShutdownTimeout(timeout): the receiver with the timeout set.
WithShutdownTimeout(e, timeout) == [e EXCEPT !.shutdownTimeout = timeout]

\* Trees beyond those of Trees.  An operand of And and Or is a pipe of three
\* stages: (a | b | c) && d, and (a | b | c) || d &.  The root's timeout is
\* not that of the nodes below it: x.Background().And(y).WithShutdownTimeout(1).
DeepTrees ==
  {And(Pipe(Pipe(NewExecutable, NewExecutable), NewExecutable), NewExecutable),
   Or(Pipe(Pipe(NewExecutable, NewExecutable), NewExecutable), Background(NewExecutable)),
   WithShutdownTimeout(And(Background(NewExecutable), NewExecutable), 1)}

DeepSpec == RunInit(DeepTrees) /\ [][Next]_vars

\* ===================================================================
\* Byte level: Run of one leaf, or of one Pipe of two leaves, with the bytes
\* the processes write, the OS pipes between the processes and the visitor,
\* and the goroutine Exec starts to wait for each process.

PipeCap == 1   \* the bytes an OS pipe buffer holds
MaxOps == 3    \* the steps of a process's program

\* A program is what a process does before it exits: each step writes one
\* byte to standard output ("out") or to standard error ("err"), or reads
\* one byte of standard input ("in").  A byte is named by the step that
\* wrote it, so a process emits its bytes in increasing order.
Programs(ops) == UNION {[1..n -> ops] : n \in 0..MaxOps}

\* Process.Exec: the three pipes (each a buffer), the io.MultiReader at its
\* first reader, the process started and doneCh empty.  stdinClosed: the
\* visitor's write end of standard input is closed; closed: the visitor's
\* read ends of standard output and standard error are closed.
Exec(prog) ==
  [prog |-> prog, pc |-> 1, exited |-> FALSE,
   stdinPipe |-> <<>>, stdoutPipe |-> <<>>, stderrPipe |-> <<>>,
   stdinClosed |-> FALSE, closed |-> FALSE, doneCh |-> FALSE,
   reader |-> "stdout"]

\* What the byte level leaves alone.
runVars == <<tree, threads, procs, ctxDone, jobs, final, returned, crashed,
             rets, heap, last>>

\* VisitProcess on a leaf after Exec, or executePipe on two leaves after
\* both startProcess calls and `go func() { io.Copy ... }`.
StreamInit ==
  /\ \/ /\ tree = NewExecutable
        /\ cmds \in {<<Exec(prog)>> : prog \in Programs({"out", "err"})}
        /\ visit = [NoVisit EXCEPT !.fn = "VisitProcess", !.pc = "ReadAll"]
     \/ /\ tree = Pipe(NewExecutable, NewExecutable)
        /\ cmds \in {<<Exec(l), Exec(r)>> :
                       l \in Programs({"out", "err"}), r \in Programs({"in", "out"})}
        /\ visit = [NoVisit EXCEPT !.fn = "executePipe", !.pc = "ReadAll",
                                   !.copy = "Read"]
  /\ threads = << <<>> >>
  /\ procs = <<>>
  /\ ctxDone = <<FALSE>>
  /\ jobs = <<>>
  /\ final = NoVal
  /\ returned = FALSE
  /\ crashed = FALSE
  /\ rets = {}
  /\ heap = <<>>
  /\ last = NoCall

\* ------------------------------------------------------- the process
\* The process writes one byte to standard output or standard error; the
\* write blocks while the pipe's buffer is full.
ProcessWrite(c) ==
  /\ LET m == cmds[c] IN
     /\ ~m.exited /\ m.pc <= Len(m.prog)
     /\ \/ /\ m.prog[m.pc] = "out" /\ Len(m.stdoutPipe) < PipeCap
           /\ cmds' = [cmds EXCEPT ![c].stdoutPipe = Append(@, m.pc),
                                   ![c].pc = @ + 1]
        \/ /\ m.prog[m.pc] = "err" /\ Len(m.stderrPipe) < PipeCap
           /\ cmds' = [cmds EXCEPT ![c].stderrPipe = Append(@, m.pc),
                                   ![c].pc = @ + 1]
  /\ UNCHANGED <<visit, runVars>>

\* The process reads one byte of standard input; the read blocks while the
\* buffer is empty and the write end is open, and sees end of input once
\* the write end is closed.
ProcessRead(c) ==
  /\ LET m == cmds[c] IN
     /\ ~m.exited /\ m.pc <= Len(m.prog) /\ m.prog[m.pc] = "in"
     /\ \/ /\ m.stdinPipe # <<>>
           /\ cmds' = [cmds EXCEPT ![c].stdinPipe = Tail(@), ![c].pc = @ + 1]
        \/ /\ m.stdinPipe = <<>> /\ m.stdinClosed
           /\ cmds' = [cmds EXCEPT ![c].pc = @ + 1]
  /\ UNCHANGED <<visit, runVars>>

\* The process exits at the end of its program, which closes its ends of
\* the three pipes.
ProcessExit(c) ==
  /\ ~cmds[c].exited /\ cmds[c].pc > Len(cmds[c].prog)
  /\ cmds' = [cmds EXCEPT ![c].exited = TRUE]
  /\ UNCHANGED <<visit, runVars>>

\* go func() { doneCh <- cmd.Wait() }(): cmd.Wait returns once the process
\* has exited, having closed the visitor's ends of the three pipes.
ExecWait(c) ==
  /\ cmds[c].exited /\ ~cmds[c].doneCh
  /\ cmds' = [cmds EXCEPT ![c].closed = TRUE, ![c].stdinClosed = TRUE,
                          ![c].doneCh = TRUE]
  /\ UNCHANGED <<visit, runVars>>

\* ---------------------------------------------------- the combined stream
\* The pipe the io.MultiReader of m is reading now.
Source(m) == IF m.reader = "stdout" THEN m.stdoutPipe ELSE m.stderrPipe

\* A Read of m's combined stream does not block.
Readable(m) ==
  /\ m.reader \in {"stdout", "stderr"}
  /\ (m.closed \/ Source(m) # <<>> \/ m.exited)

\* One Read of m's combined stream: n the bytes read, m the exec.Cmd after.
\* A closed read end fails the Read; else the Read takes what the buffer
\* holds; else, the process having exited, the current pipe is at end of
\* file and the MultiReader moves on to the next one.
Read(m) ==
  IF m.closed THEN [n |-> <<>>, m |-> [m EXCEPT !.reader = "failed"]]
  ELSE IF Source(m) # <<>>
  THEN [n |-> Source(m),
        m |-> IF m.reader = "stdout" THEN [m EXCEPT !.stdoutPipe = <<>>]
              ELSE [m EXCEPT !.stderrPipe = <<>>]]
  ELSE [n |-> <<>>,
        m |-> [m EXCEPT !.reader = IF @ = "stdout" THEN "stderr" ELSE "EOF"]]

\* The combined stream of m has ended, at end of file or with an error.
Ended(m) == m.reader \in {"EOF", "failed"}

\* ------------------------------------------------------- the visitor
\* io.ReadAll(runner.ReaderWriter()) in VisitProcess, and
\* io.ReadAll(rightRunner.ReaderWriter()) in executePipe: one Read; the
\* error that ends ReadAll is dropped.
ReadAll ==
  /\ visit.pc = "ReadAll"
  /\ LET c == Len(cmds)
         r == Read(cmds[c])
     IN /\ Readable(cmds[c])
        /\ cmds' = [cmds EXCEPT ![c] = r.m]
        /\ visit' = [visit EXCEPT
                       !.output = @ \o r.n,
                       !.pc = IF ~Ended(r.m) THEN @
                              ELSE IF visit.fn = "executePipe" THEN "copyDone"
                              ELSE "Wait"]
  /\ UNCHANGED runVars

\* io.Copy(rightRunner.ReaderWriter(), leftRunner.ReaderWriter()): one Read
\* of left's combined stream.
CopyRead ==
  /\ visit.copy = "Read"
  /\ LET r == Read(cmds[1])
     IN /\ Readable(cmds[1])
        /\ cmds' = [cmds EXCEPT ![1] = r.m]
        /\ visit' = [visit EXCEPT
                       !.pending = r.n,
                       !.copy = IF Ended(r.m) THEN "Close"
                                ELSE IF r.n # <<>> THEN "Write" ELSE "Read"]
  /\ UNCHANGED runVars

\* io.Copy: one byte written into right's standard input; the write blocks
\* while the buffer is full.
CopyWrite ==
  /\ visit.copy = "Write"
  /\ ~cmds[2].exited /\ ~cmds[2].stdinClosed
  /\ Len(cmds[2].stdinPipe) < PipeCap
  /\ cmds' = [cmds EXCEPT ![2].stdinPipe = Append(@, Head(visit.pending))]
  /\ visit' = [visit EXCEPT !.pending = Tail(@),
                            !.copy = IF Tail(visit.pending) = <<>> THEN "Read" ELSE @]
  /\ UNCHANGED runVars

\* io.Copy: the write fails once right has exited or its standard input is
\* closed, and io.Copy returns the error without reading on.
CopyWriteFails ==
  /\ visit.copy = "Write"
  /\ cmds[2].exited \/ cmds[2].stdinClosed
  /\ visit' = [visit EXCEPT !.pending = <<>>, !.copy = "Close"]
  /\ UNCHANGED <<cmds, runVars>>

\* rightRunner.ReaderWriter().Close(); copyDone <- err.
CopyClose ==
  /\ visit.copy = "Close"
  /\ cmds' = [cmds EXCEPT ![2].stdinClosed = TRUE]
  /\ visit' = [visit EXCEPT !.copy = "done", !.copyDone = TRUE]
  /\ UNCHANGED runVars

\* <-copyDone in executePipe.
ReceiveCopyDone ==
  /\ visit.pc = "copyDone" /\ visit.copyDone
  /\ visit' = [visit EXCEPT !.pc = "WaitLeft"]
  /\ UNCHANGED <<cmds, runVars>>

\* leftRunner.Wait() in executePipe.
WaitLeft ==
  /\ visit.pc = "WaitLeft" /\ cmds[1].doneCh
  /\ visit' = [visit EXCEPT !.pc = "Wait"]
  /\ UNCHANGED <<cmds, runVars>>

\* runner.Wait() in VisitProcess, rightRunner.Wait() in executePipe, and
\* the return of the Result with Stdout: output.
WaitReturn ==
  /\ visit.pc = "Wait" /\ cmds[Len(cmds)].doneCh
  /\ visit' = [visit EXCEPT !.pc = "returned"]
  /\ UNCHANGED <<cmds, runVars>>

StreamNext ==
  \/ \E c \in DOMAIN cmds : ProcessWrite(c)
  \/ \E c \in DOMAIN cmds : ProcessRead(c)
  \/ \E c \in DOMAIN cmds : ProcessExit(c)
  \/ \E c \in DOMAIN cmds : ExecWait(c)
  \/ ReadAll
  \/ CopyRead
  \/ CopyWrite
  \/ CopyWriteFails
  \/ CopyClose
  \/ ReceiveCopyDone
  \/ WaitLeft
  \/ WaitReturn

StreamSpec == StreamInit /\ [][StreamNext]_vars

\* The Go scheduler and the OS run every goroutine and every process that
\* can take a step.
LiveStreamSpec == StreamSpec /\ WF_vars(StreamNext)

\* ===================================================================
\* Properties
\* ===================================================================
RECURSIVE PathsOf(_)
PathsOf(n) ==
  {<<>>}
  \cup (IF n.operation = OpSingle THEN {}
        ELSE {<<1>> \o p : p \in PathsOf(n.left)})
  \cup (IF n.operation \in {OpPipe, OpAnd, OpOr}
        THEN {<<2>> \o p : p \in PathsOf(n.right)}
        ELSE {})

Paths == PathsOf(tree)
NodesOf(op) == {q \in Paths : OpAt(q) = op}

\* Run of node q has returned; what it returned.
Ran(q) == \E r \in rets : r.fn = "Run" /\ r.path = q
RunRet(q) == (CHOOSE r \in rets : r.fn = "Run" /\ r.path = q).val

\* Some process of a leaf at or below x was started.
Started(x) == \E p \in DOMAIN procs : IsUnder(procs[p].leaf, x)

\* The (result, err) pair of a Run that failed, that succeeded.
Failed(v) == v.err # Nil \/ v.res.ExitCode # 0
Succeeded(v) == v.err = Nil /\ v.res.ExitCode = 0

\* C1: And short-circuit.  Once left.Run has returned a non-nil error or a
\* non-zero exit code, no process of right is ever started, and the And's
\* Result has exactly the two children [left's Result, a skipped child] and
\* left's Error, ExitCode and Stdout.
C1_AndShortCircuit ==
  \A q \in NodesOf(OpAnd) :
    (Ran(LeftOf(q)) /\ Failed(RunRet(LeftOf(q)))) =>
      /\ ~Started(RightOf(q))
      /\ Ran(q) =>
           LET a == RunRet(q).res
               l == RunRet(LeftOf(q)).res
           IN /\ Len(a.Children) = 2
              /\ a.Children[1] = l
              /\ a.Children[2].Skipped
              /\ a.Error = l.Error
              /\ a.ExitCode = l.ExitCode
              /\ a.Stdout = l.Stdout

\* C1 witness: an And has returned after its left operand failed.
C1_Witness ==
  \E q \in NodesOf(OpAnd) :
    Ran(q) /\ Ran(LeftOf(q)) /\ Failed(RunRet(LeftOf(q)))

\* C2: Or recovery.  When left failed, right is run; if right succeeds the
\* Or returns a nil error, a nil Result.Error, ExitCode 0 and right's Stdout,
\* with left's failure still in Children[0]; if right fails too, right's
\* error and exit code are the Or's.
C2_OrRecovery ==
  \A q \in NodesOf(OpOr) :
    (Ran(q) /\ Ran(LeftOf(q)) /\ Failed(RunRet(LeftOf(q)))) =>
      /\ Ran(RightOf(q))
      /\ LET o == RunRet(q)
             l == RunRet(LeftOf(q))
             r == RunRet(RightOf(q))
         IN /\ o.res.Children = <<l.res, r.res>>
            /\ o.res.Stdout = r.res.Stdout
            /\ o.res.ExitCode = r.res.ExitCode
            /\ IF Succeeded(r)
               THEN /\ o.err = Nil
                    /\ o.res.Error = Nil
                    /\ o.res.ExitCode = 0
                    /\ (o.res.Children[1].Error # Nil \/ o.res.Children[1].ExitCode # 0)
               ELSE /\ o.err = r.err
                    /\ o.res.Error = r.res.Error

\* C2 witness: an Or has returned after left failed and right succeeded.
C2_Witness ==
  \E q \in NodesOf(OpOr) :
    /\ Ran(q) /\ Ran(LeftOf(q)) /\ Ran(RightOf(q))
    /\ RunRet(LeftOf(q)).res.Error # Nil
    /\ Succeeded(RunRet(RightOf(q)))

\* C3: Or skip.  Once left.Run has returned a nil error and exit code 0, no
\* process of right is ever started, and the Or's second child is skipped,
\* its ExitCode and Stdout are left's and its error is nil.
C3_OrSkip ==
  \A q \in NodesOf(OpOr) :
    (Ran(LeftOf(q)) /\ Succeeded(RunRet(LeftOf(q)))) =>
      /\ ~Started(RightOf(q))
      /\ Ran(q) =>
           LET o == RunRet(q)
               l == RunRet(LeftOf(q)).res
           IN /\ Len(o.res.Children) = 2
              /\ o.res.Children[1] = l
              /\ o.res.Children[2].Skipped
              /\ o.res.ExitCode = l.ExitCode
              /\ o.res.Stdout = l.Stdout
              /\ o.res.Error = Nil
              /\ o.err = Nil

\* C3 witness: an Or has returned after its left operand, a process that
\* wrote output, succeeded.
C3_Witness ==
  \E q \in NodesOf(OpOr) :
    /\ Ran(q) /\ Ran(LeftOf(q)) /\ Succeeded(RunRet(LeftOf(q)))
    /\ RunRet(q).res.Stdout # <<>>

\* C4: And success.  When left succeeded, right is run, the And's children
\* are [left's Result, right's Result] with the second not skipped, and the
\* And's Error, ExitCode and Stdout are right's.
C4_AndSuccess ==
  \A q \in NodesOf(OpAnd) :
    (Ran(q) /\ Ran(LeftOf(q)) /\ Succeeded(RunRet(LeftOf(q)))) =>
      /\ Ran(RightOf(q))
      /\ LET a == RunRet(q)
             l == RunRet(LeftOf(q))
             r == RunRet(RightOf(q))
         IN /\ a.res.Children = <<l.res, r.res>>
            /\ ~a.res.Children[2].Skipped
            /\ a.res.Error = r.res.Error
            /\ a.res.ExitCode = r.res.ExitCode
            /\ a.res.Stdout = r.res.Stdout
            /\ a.err = r.err

\* C4 witness: an And has returned after left succeeded and right, a
\* process, failed.
C4_Witness ==
  \E q \in NodesOf(OpAnd) :
    /\ Ran(q) /\ Ran(LeftOf(q)) /\ Succeeded(RunRet(LeftOf(q)))
    /\ Ran(RightOf(q)) /\ RunRet(RightOf(q)).res.ExitCode = 1

\* The thread of job j has sent the job's Result and ended.
JobDone(j) == threads[jobs[j].thread] = <<>>

\* The job the Background node q created.
HasJob(q) == \E j \in DOMAIN jobs : jobs[j].visitor = q
JobOf(q) == CHOOSE j \in DOMAIN jobs : jobs[j].visitor = q

\* C5: Background does not block the foreground.  In X.Background().And(Y)
\* with the run context not cancelled, the Run of the Background node is
\* never stuck waiting for X: it can always take its next step, so Y can be
\* started while X is still running.
C5_BackgroundNonBlocking ==
  \A t \in DOMAIN threads :
    (/\ Active(t)
     /\ Len(threads[t]) >= 2
     /\ ~ctxDone[1]
     /\ ~ctxDone[Top(t).ctx]
     /\ Top(t).fn = "Run"
     /\ OpAt(Top(t).path) = OpBackground
     /\ threads[t][Len(threads[t]) - 1].fn = "Run"
     /\ OpAt(threads[t][Len(threads[t]) - 1].path) = OpAnd
     /\ Top(t).path = LeftOf(threads[t][Len(threads[t]) - 1].path))
    => ENABLED ThreadStep(t)

\* C6: wait-at-end.  If the run context was not cancelled, the top-level
\* Run has not returned before every background job launched has completed.
C6_WaitAtEnd ==
  (returned /\ ~ctxDone[1]) => \A j \in DOMAIN jobs : JobDone(j)

\* C6 witness: Run returned, never cancelled, after a background job that
\* started a process.
C6_Witness ==
  /\ returned /\ ~ctxDone[1]
  /\ \E j \in DOMAIN jobs : Started(jobs[j].exec)

\* C7: background failures are never escalated.  Whatever X did, the Run
\* of X.Background() returns a nil error and a Result with ExitCode 0 and a
\* nil Error; X's error appears in BackgroundErrors and nowhere else (and
\* is recorded whenever the job was drained without cancellation).
C7_BackgroundNeverEscalated ==
  \A q \in NodesOf(OpBackground) :
    Ran(q) =>
      LET b == RunRet(q)
          j == JobOf(q)
      IN /\ b.err = Nil
         /\ b.res.ExitCode = 0
         /\ b.res.Error = Nil
         /\ b.res.Type = OpBackground
         /\ b.res.Stdout = <<>>
         /\ b.res.Children = <<>>
         /\ HasJob(q)
         /\ IF jobs[j].cancelled
            THEN b.res.BackgroundErrors = <<>>
            ELSE /\ Ran(LeftOf(q))
                 /\ b.res.BackgroundErrors =
                      (IF RunRet(LeftOf(q)).res.Error # Nil
                       THEN <<RunRet(LeftOf(q)).res.Error>> ELSE <<>>)

\* C7 witness: X.Background() has returned with X's start failure recorded.
C7_Witness ==
  \E q \in NodesOf(OpBackground) :
    /\ Ran(q)
    /\ Len(RunRet(q).res.BackgroundErrors) = 1
    /\ RunRet(q).res.BackgroundErrors[1].kind = "start"

\* The elements of a sequence.
Range(seq) == {seq[k] : k \in DOMAIN seq}

\* C8: background errors are reported on the top-level Result.  When a
\* Background node below the root was run by the foreground, the run context
\* was not cancelled and X ended with an error, that error is in the
\* BackgroundErrors of the Result the top-level Run returned.
C8_BackgroundErrorsOnRoot ==
  (returned /\ ~ctxDone[1]) =>
    \A j \in DOMAIN jobs :
      (/\ jobs[j].visitor # <<>>
       /\ jobs[j].launcher = 1
       /\ Ran(jobs[j].exec)
       /\ RunRet(jobs[j].exec).res.Error # Nil)
      => RunRet(jobs[j].exec).res.Error \in Range(final.res.BackgroundErrors)

\* The leaf whose process is the runner startProcess(x) yields: x itself, or
\* the last stage of a nested Pipe.
RECURSIVE RunnerLeaf(_)
RunnerLeaf(x) ==
  IF OpAt(x) = OpPipe THEN RunnerLeaf(RightOf(x)) ELSE x

HasProc(leaf) == \E p \in DOMAIN procs : procs[p].leaf = leaf
ProcOf(leaf) == CHOOSE p \in DOMAIN procs : procs[p].leaf = leaf

\* Both operands of Pipe q yielded a runner with a started process.
BothStarted(q) ==
  /\ OpAt(RunnerLeaf(LeftOf(q))) = OpSingle
  /\ OpAt(RunnerLeaf(RightOf(q))) = OpSingle
  /\ HasProc(RunnerLeaf(LeftOf(q)))
  /\ HasProc(RunnerLeaf(RightOf(q)))

\* C9: Pipe fail-fast, left wins.  For a Pipe whose two processes both
\* started: if left's process failed, the Pipe's error and exit code are
\* left's, also when right failed too; otherwise, if right's failed, they
\* are right's; the error is nil only if both succeeded.
C9_PipeFailFast ==
  \A q \in NodesOf(OpPipe) :
    (Ran(q) /\ BothStarted(q)) =>
      LET v == RunRet(q)
          l == procs[ProcOf(RunnerLeaf(LeftOf(q)))]
          r == procs[ProcOf(RunnerLeaf(RightOf(q)))]
      IN /\ l.state = "exited" /\ r.state = "exited"
         /\ IF l.status # 0
            THEN /\ v.err = ExitError(l.status, l.leaf)
                 /\ v.res.Error = v.err
                 /\ v.res.ExitCode = l.status
            ELSE IF r.status # 0
            THEN /\ v.err = ExitError(r.status, r.leaf)
                 /\ v.res.Error = v.err
                 /\ v.res.ExitCode = r.status
            ELSE /\ v.err = Nil
                 /\ v.res.Error = Nil
                 /\ v.res.ExitCode = 0

\* C9 witness: a Pipe has returned after both its processes failed, with
\* different exit codes.
C9_Witness ==
  \E q \in NodesOf(OpPipe) :
    /\ Ran(q) /\ BothStarted(q)
    /\ procs[ProcOf(RunnerLeaf(LeftOf(q)))].status = 1
    /\ procs[ProcOf(RunnerLeaf(RightOf(q)))].status = SignalExitCode

\* A chain a.Pipe(b).Pipe(c)...: the number of its stages, 0 if n is none.
RECURSIVE ChainStages(_)
ChainStages(n) ==
  IF n.operation = OpSingle THEN 1
  ELSE IF n.operation = OpPipe /\ n.right.operation = OpSingle
            /\ ChainStages(n.left) > 0
  THEN ChainStages(n.left) + 1
  ELSE 0

\* C10: fail-fast through a chain.  When Run of a chain of three or more
\* stages returns and the process of any stage has failed, the error is
\* non-nil and the exit code non-zero.
C10_ChainFailFast ==
  (returned /\ ChainStages(tree) >= 3
   /\ \E p \in DOMAIN procs : procs[p].state = "exited" /\ procs[p].status # 0)
  => (final.err # Nil /\ final.res.ExitCode # 0)

\* The tree n is built from leaves and Pipe alone.
RECURSIVE PipeOnly(_)
PipeOnly(n) ==
  \/ n.operation = OpSingle
  \/ n.operation = OpPipe /\ PipeOnly(n.left) /\ PipeOnly(n.right)

\* The stages of the pipe chain at q: its leaves, from left to right.
RECURSIVE StagesOf(_)
StagesOf(q) ==
  IF OpAt(q) = OpSingle THEN <<q>>
  ELSE StagesOf(LeftOf(q)) \o StagesOf(RightOf(q))

\* C11: Pipe success mirrors the last stage.  When Run of a pipe chain has
\* returned and every stage's process started and exited with status 0, the
\* error is nil, ExitCode and Stdout are those of the rightmost stage's
\* process, and what was copied into that process's input is the output of
\* the stage before it and nothing else.
C11_PipeSuccessMirrorsLast ==
  \A q \in NodesOf(OpPipe) :
    (/\ Ran(q) /\ PipeOnly(NodeAt(q))
     /\ \A k \in DOMAIN StagesOf(q) :
          /\ HasProc(StagesOf(q)[k])
          /\ procs[ProcOf(StagesOf(q)[k])].state = "exited"
          /\ procs[ProcOf(StagesOf(q)[k])].status = 0)
    => LET st == StagesOf(q)
           rightmost == ProcOf(st[Len(st)])
           v == RunRet(q)
       IN /\ v.err = Nil
          /\ v.res.Error = Nil
          /\ v.res.ExitCode = procs[rightmost].status
          /\ v.res.Stdout = Output(rightmost)
          /\ procs[rightmost].from = <<ProcOf(st[Len(st) - 1])>>

\* The context Run of node q was called with, and whether it was already
\* done at the call.
RunCtx(q) == (CHOOSE r \in rets : r.fn = "Run" /\ r.path = q).ctx
RunDone(q) == (CHOOSE r \in rets : r.fn = "Run" /\ r.path = q).done

\* C12: Pipe children are always present.  As long as its context is not
\* done, Run of a Pipe never panics on the Results executePipe hands back
\* (so also not when left started and right failed to start), and the
\* Result it returns has exactly two non-nil children.
C12_PipeChildrenPresent ==
  /\ \A q \in NodesOf(OpPipe) :
       (Ran(q) /\ ~ctxDone[RunCtx(q)]) =>
         /\ Len(RunRet(q).res.Children) = 2
         /\ RunRet(q).res.Children[1] # NilResult
         /\ RunRet(q).res.Children[2] # NilResult
  /\ \A t \in DOMAIN threads :
       ~(/\ crashed
         /\ threads[t] # <<>>
         /\ Top(t).fn = "Run" /\ OpAt(Top(t).path) = OpPipe
         /\ ~ctxDone[Top(t).ctx]
         /\ Top(t).pc = "copy" /\ Top(t).rv.err # Nil)

\* C13: pre-cancelled Pipe.  When Run is called on a Pipe node with a
\* context that is already done, it starts no process of either operand and
\* returns the context's error with a Result of type Pipe carrying that
\* same error.
C13_PreCancelledPipe ==
  /\ \A q \in NodesOf(OpPipe) :
       (Ran(q) /\ RunDone(q)) =>
         /\ RunRet(q).err = CtxError
         /\ RunRet(q).res.Type = OpPipe
         /\ RunRet(q).res.Error = RunRet(q).err
         /\ ~Started(LeftOf(q))
         /\ ~Started(RightOf(q))
  /\ \A t \in DOMAIN threads : \A k \in DOMAIN threads[t] :
       (/\ threads[t][k].fn = "Run"
        /\ OpAt(threads[t][k].path) = OpPipe
        /\ threads[t][k].done)
       => ~Started(threads[t][k].path)

\* C13 witness: Run of a Pipe below the root has returned after it was
\* called with a context that was already done.
C13_Witness ==
  \E q \in NodesOf(OpPipe) : q # <<>> /\ Ran(q) /\ RunDone(q)

\* The run context was already done when the top-level Run was called.
PreCancelled ==
  IF threads[1] # <<>>
  THEN threads[1][1].done
  ELSE \E r \in rets : r.fn = "Run" /\ r.path = <<>> /\ r.done

\* C14: a pre-cancelled Run spawns nothing.  Whatever the tree, a top-level
\* Run called with a context that is already done never starts a process,
\* and the error it returns is non-nil.
C14_PreCancelledSpawnsNothing ==
  PreCancelled =>
    /\ procs = <<>>
    /\ returned => final.err # Nil

\* C15: any Executable may be an operand of Pipe.  A Pipe whose operand is
\* an And, Or or Background composite that ran without error (so that
\* startProcess handed back no runner for it) does not panic when it
\* connects its two operands, the run context not being cancelled.
C15_AnyOperandOfPipe ==
  \A t \in DOMAIN threads :
    (/\ threads[t] # <<>>
     /\ ~ctxDone[1]
     /\ Top(t).fn \in {"Run", "startNestedPipe"}
     /\ OpAt(Top(t).path) = OpPipe
     /\ Top(t).pc = "copy"
     /\ Top(t).rv.err = Nil
     /\ \/ OpAt(LeftOf(Top(t).path)) \in {OpAnd, OpOr, OpBackground}
        \/ OpAt(RightOf(Top(t).path)) \in {OpAnd, OpOr, OpBackground})
    => ~crashed

Combinators == {"Pipe", "And", "Or", "Background"}

\* C16: building is side-effect free.  Every call of Pipe, And, Or or
\* Background starts no process, leaves every node that already exists
\* (operation, left, right, shutdown timeout) as it was, and returns a node
\* that did not exist before, of the combinator's operation, with the
\* receiver and the argument as its operands and the receiver's timeout.
C16_BuildingIsPure ==
  [][(last' # last /\ last'.op \in Combinators) =>
       /\ procs' = procs
       /\ threads' = threads
       /\ Len(heap') = Len(heap) + 1
       /\ \A n \in DOMAIN heap : heap'[n] = heap[n]
       /\ last'.ret = Len(heap')
       /\ last'.recv \in DOMAIN heap
       /\ heap'[last'.ret].left = last'.recv
       /\ heap'[last'.ret].shutdownTimeout = heap[last'.recv].shutdownTimeout
       /\ IF last'.op = "Background"
          THEN heap'[last'.ret].operation = OpBackground
          ELSE /\ heap'[last'.ret].right = last'.arg
               /\ last'.arg \in DOMAIN heap
               /\ heap'[last'.ret].operation =
                    (CASE last'.op = "Pipe" -> OpPipe
                       [] last'.op = "And" -> OpAnd
                       [] last'.op = "Or" -> OpOr)]_vars

\* C16 witness: a combinator was called on a composite receiver whose
\* timeout is not the default one.
C16_Witness ==
  /\ last.op \in Combinators
  /\ heap[last.recv].operation # OpSingle
  /\ heap[last.recv].shutdownTimeout # DefaultShutdownTimeout
  /\ procs = <<>>

\* C17: Single exit-code mapping.  The Run of a leaf returns ExitCode 0 and
\* a nil error when its process exited cleanly, the process's status N and
\* a non-nil error when it exited with N # 0, and ExitCode -1 and a non-nil
\* error when the process was ended by a signal or could not be started.
C17_SingleExitCode ==
  \A q \in NodesOf(OpSingle) :
    Ran(q) =>
      LET v == RunRet(q) IN
      IF HasProc(q)
      THEN LET p == procs[ProcOf(q)] IN
           /\ p.state = "exited"
           /\ v.res.ExitCode = p.status
           /\ p.status = 0 => (v.err = Nil /\ v.res.Error = Nil)
           /\ p.status # 0 => (v.err # Nil /\ v.res.Error # Nil)
      ELSE /\ v.res.ExitCode = 0 - 1
           /\ v.err # Nil
           /\ v.res.Error # Nil

\* C17 witness: one leaf's Run returned after its process was killed and
\* another's after it exited with status 1.
C17_Witness ==
  \E q1 \in NodesOf(OpSingle), q2 \in NodesOf(OpSingle) :
    /\ Ran(q1) /\ HasProc(q1) /\ procs[ProcOf(q1)].status = SignalExitCode
    /\ Ran(q2) /\ HasProc(q2) /\ procs[ProcOf(q2)].status = 1

\* A Result and every Result below it.
RECURSIVE AllResults(_)
AllResults(r) ==
  {r} \cup UNION {AllResults(r.Children[k]) : k \in DOMAIN r.Children}

\* C18: exit code and error agree.  In every Result a Run has returned, and
\* in every child of it at any depth, ExitCode is 0 exactly when Error is
\* nil.
C18_ExitCodeAgreesWithError ==
  \A ret \in rets :
    ret.fn = "Run" =>
      \A r \in AllResults(ret.val.res) : (r.ExitCode = 0) <=> (r.Error = Nil)

\* C19: skipped results are inert.  Among the Results Run returns, one with
\* Skipped set has ExitCode 0, no output, a nil Error and no children, is
\* never the Result of a Run itself but always the second child of an And
\* or Or Result, and no process of the operand it stands for was started.
C19_SkippedInert ==
  /\ \A ret \in rets :
       ret.fn = "Run" =>
         /\ ~ret.val.res.Skipped
         /\ \A r \in AllResults(ret.val.res) :
              /\ r.Skipped =>
                   /\ r.ExitCode = 0
                   /\ r.Stdout = <<>>
                   /\ r.Error = Nil
                   /\ r.Children = <<>>
              /\ \A k \in DOMAIN r.Children :
                   r.Children[k].Skipped => (k = 2 /\ r.Type \in {OpAnd, OpOr})
  /\ \A q \in NodesOf(OpAnd) \cup NodesOf(OpOr) :
       (Ran(q) /\ RunRet(q).res.Children[2].Skipped) => ~Started(RightOf(q))

\* C19 witness: an Or below the root skipped its right operand after its
\* left one had started a process, and the top-level Run has returned.
C19_Witness ==
  /\ returned
  /\ \E q \in NodesOf(OpOr) :
       /\ q # <<>> /\ Ran(q)
       /\ RunRet(q).res.Children[2].Skipped
       /\ Started(LeftOf(q))

\* C20: the drain under cancellation is bounded.  A Run that waits for a
\* background job while its context is done can invoke the job's cancel
\* trigger; once in the second wait the job has been cancelled, the wait is
\* the visitor's own shutdown timeout, and the timeout branch can always be
\* taken, whether or not the job ever completes; a job is abandoned only
\* after it was cancelled.
C20_DrainBounded ==
  /\ \A t \in DOMAIN threads :
       (Active(t) /\ Top(t).fn = "Run" /\ Top(t).pc = "drain"
        /\ ctxDone[Top(t).ctx])
       => ENABLED WaitForBackgroundCancel(t)
  /\ \A t \in DOMAIN threads :
       (Active(t) /\ Top(t).fn = "Run" /\ Top(t).pc = "grace")
       => LET job == jobs[Top(t).backgroundJobs[Top(t).i]] IN
          /\ job.cancelled
          /\ ctxDone[job.ctx]
          /\ Top(t).shutdownTimeout = NodeAt(Top(t).path).shutdownTimeout
          /\ ENABLED WaitForBackgroundTimeout(t)
  /\ \A j \in DOMAIN jobs : jobs[j].abandoned => jobs[j].cancelled

\* C20 witness: the top-level Run has returned although a job it abandoned
\* is still running.
C20_Witness ==
  /\ returned
  /\ \E j \in DOMAIN jobs :
       jobs[j].abandoned /\ jobs[j].cancelled /\ ~JobDone(j)

\* C21: staged graceful shutdown.  A process that is sent SIGKILL after its
\* context was cancelled was sent SIGTERM first.
C21_StagedShutdown ==
  \A p \in DOMAIN procs :
    (\E k \in DOMAIN procs[p].signals : procs[p].signals[k] = "SIGKILL")
    => procs[p].signals[1] = "SIGTERM"

\* Run of leaf q is waiting for its process, which is still running, and
\* the context it was called with is done.
CancelledWhileRunning(q) ==
  \E t \in DOMAIN threads :
    /\ Active(t)
    /\ Top(t).fn = "Run" /\ Top(t).path = q /\ Top(t).pc = "wait"
    /\ ~Exited(Top(t).L.runner)
    /\ ctxDone[Top(t).ctx]

\* C22, as stated: once the context is cancelled while the leaf's process is
\* running, the error Run returns is non-nil.
C22_CancelledSingleFails ==
  \A q \in {<<>>, <<1>>, <<2>>} :
    [](CancelledWhileRunning(q) => [](Ran(q) => RunRet(q).err # Nil))

\* C22, amended: once the context is cancelled while the leaf's process is
\* running, Run returns (unless a panic elsewhere ends the program), and
\* what any leaf's Run returns is a non-nil Result, with a non-nil error
\* unless the process exited with status 0 by itself.
C22_CancelledSingleReturns ==
  /\ [](\A q \in NodesOf(OpSingle) :
          (Ran(q) /\ HasProc(q)) =>
            /\ RunRet(q).res # NilResult
            /\ RunRet(q).err = Nil => procs[ProcOf(q)].status = 0
            /\ RunRet(q).err = Nil => procs[ProcOf(q)].signals = <<>>)
  /\ \A q \in {<<>>, <<1>>, <<2>>} :
       CancelledWhileRunning(q) ~> (Ran(q) \/ crashed)

\* C22 witness: the Run of the root leaf has returned an error after its
\* process was killed under the cancelled run context.
C22_Witness ==
  /\ tree.operation = OpSingle
  /\ returned /\ ctxDone[1]
  /\ HasProc(<<>>) /\ procs[ProcOf(<<>>)].signals = <<"SIGKILL">>
  /\ final.err # Nil /\ final.res # NilResult

\* The Result r has the shape of the tree n: n's operation as its Type, and
\* each child it holds is the skipped stand-in or has the shape of the
\* operand at its place.
RECURSIVE Mirrors(_, _)
Mirrors(r, n) ==
  /\ r.Type = n.operation
  /\ n.operation = OpSingle => r.Children = <<>>
  /\ \A k \in DOMAIN r.Children :
       /\ k \in {1, 2}
       /\ n.operation \in {OpPipe, OpAnd, OpOr}
       /\ \/ r.Children[k].Skipped
          \/ Mirrors(r.Children[k], IF k = 1 THEN n.left ELSE n.right)

\* C23: the Result tree mirrors the executed tree.  What Run of a node
\* returns beside a nil error has the node's operation as its Type and
\* children with the type and children of the corresponding operands, at
\* every depth.
C23_ResultMirrorsTree ==
  \A q \in Paths :
    (Ran(q) /\ RunRet(q).err = Nil) => Mirrors(RunRet(q).res, NodeAt(q))

\* The tree n is built from And and Or alone, over leaves and two-stage
\* pipes of leaves.
RECURSIVE AndOrTree(_)
AndOrTree(n) ==
  \/ n.operation = OpSingle
  \/ /\ n.operation = OpPipe
     /\ n.left.operation = OpSingle /\ n.right.operation = OpSingle
  \/ /\ n.operation \in {OpAnd, OpOr}
     /\ AndOrTree(n.left) /\ AndOrTree(n.right)

\* Left-to-right shell evaluation of the && / || expression at q, its
\* commands (leaves and pipes) having the outcomes they had in this run:
\* the commands the shell runs, whether the last one succeeded, and which
\* one it was.  ok is meaningless once a command the shell runs has no
\* outcome in this run (known: FALSE).
RECURSIVE ShellEval(_)
ShellEval(q) ==
  IF OpAt(q) \in {OpSingle, OpPipe}
  THEN [ran |-> {q}, known |-> Ran(q), ok |-> Ran(q) /\ Succeeded(RunRet(q)),
        lastRun |-> q]
  ELSE LET l == ShellEval(LeftOf(q)) IN
       IF l.known /\ (l.ok <=> OpAt(q) = OpAnd)
       THEN LET r == ShellEval(RightOf(q)) IN
            [r EXCEPT !.ran = l.ran \cup r.ran]
       ELSE l

\* The commands of the expression at q.
RECURSIVE CommandsOf(_)
CommandsOf(q) ==
  IF OpAt(q) \in {OpSingle, OpPipe} THEN {q}
  ELSE CommandsOf(LeftOf(q)) \cup CommandsOf(RightOf(q))

InBackground(x, q) ==
  \E k \in Len(q)..(Len(x) - 1) : OpAt(SubSeq(x, 1, k)) = OpBackground

\* C25: strict sequencing in And/Or.  Once a process of right has been
\* started, left.Run has returned and every foreground process of left has
\* exited and been awaited.
C25_StrictSequencing ==
  \A q \in NodesOf(OpAnd) \cup NodesOf(OpOr) :
    Started(RightOf(q)) =>
      /\ Ran(LeftOf(q))
      /\ \A p \in DOMAIN procs :
           (IsUnder(procs[p].leaf, LeftOf(q)) /\ ~InBackground(procs[p].leaf, LeftOf(q)))
           => (procs[p].state = "exited" /\ procs[p].waited)

\* The first half of C25 alone: right starts nothing before left.Run has
\* returned.
RightAfterLeftReturned ==
  \A q \in NodesOf(OpAnd) \cup NodesOf(OpOr) :
    Started(RightOf(q)) => Ran(LeftOf(q))

\* C26: Pipe flattening is independent of association.  When Run of a tree
\* built from leaves and Pipe alone has returned with every stage started,
\* the stages form one chain in left-to-right order whichever way the tree
\* is nested: nothing is copied into the first stage, into every later stage
\* exactly the output of the stage before it, and Stdout is the output that
\* went through the whole chain.
C26_FlatteningAssociative ==
  (returned /\ ~crashed /\ ~ctxDone[1] /\ PipeOnly(tree)
   /\ \A k \in DOMAIN StagesOf(<<>>) : HasProc(StagesOf(<<>>)[k]))
  => LET st == StagesOf(<<>>) IN
     /\ procs[ProcOf(st[1])].from = <<>>
     /\ \A k \in 2..Len(st) :
          procs[ProcOf(st[k])].from = <<ProcOf(st[k - 1])>>
     /\ final.err = Nil => final.res.Stdout = st

\* The steps of program prog that write a byte.
Written(prog) == {k \in DOMAIN prog : prog[k] \in {"out", "err"}}

\* C27: Pipe does not deadlock.  With bounded pipe buffers, Run of a Pipe
\* of two leaves eventually returns whenever left writes a finite number of
\* bytes and right terminates on its own, also when right exits without
\* reading all of its input while left has more to write than a pipe
\* buffer holds.
C27_PipeNoDeadlock ==
  (visit.fn = "executePipe") ~> (visit.pc = "returned")

\* C28: Single terminates for any finite output.  With bounded pipe
\* buffers, Run of a leaf eventually returns for every process that writes
\* finitely many bytes to standard output and standard error in any order
\* and then exits.
C28_SingleTerminates ==
  (visit.fn = "VisitProcess") ~> (visit.pc = "returned")

\* C29: Single captures the full output.  When Run of a leaf has returned
\* and the process exited normally, Stdout holds every byte the process
\* wrote, however the goroutine waiting for the exit interleaves with the
\* reader.
C29_FullOutput ==
  (visit.fn = "VisitProcess" /\ visit.pc = "returned")
  => Range(visit.output) = Written(cmds[1].prog)

\* C30: the combined stream preserves emission order.  The bytes read from
\* a process's combined stream are in the order the process emitted them.
C30_EmissionOrder ==
  visit.fn = "VisitProcess" =>
    \A i, j \in DOMAIN visit.output :
      i < j => visit.output[i] < visit.output[j]

\* The case C27 singles out: left writes to standard output alone.
PipeStdoutOnlyReturns ==
  (visit.fn = "executePipe"
   /\ \A k \in DOMAIN cmds[1].prog : cmds[1].prog[k] = "out")
  ~> (visit.pc = "returned")

\* The drain of Background node q received the Result of q's job from the
\* job's channel before Run of q returned.
Received(q) ==
  /\ Ran(q) /\ HasJob(q)
  /\ JobDone(JobOf(q))
  /\ jobs[JobOf(q)].done = <<>>

\* C31: no background error is lost.  When the drain received, before Run
\* returned, the Result of a job that ended with an error, the error is in
\* the BackgroundErrors of the Result that Run returned, also when the run
\* context was cancelled at that time.
C31_NoBackgroundErrorLost ==
  \A q \in NodesOf(OpBackground) :
    (Received(q) /\ RunRet(LeftOf(q)).res.Error # Nil)
    => RunRet(LeftOf(q)).res.Error \in Range(RunRet(q).res.BackgroundErrors)

\* The frames of all goroutines, each with its thread and its depth.
Frames ==
  UNION {{<<t, k>> : k \in DOMAIN threads[t]} : t \in DOMAIN threads}

C33_IndependentContext ==
  /\ [](\A j \in DOMAIN jobs : ctxDone[jobs[j].ctx] => jobs[j].cancelled)
  /\ [][\A j \in DOMAIN jobs :
          (~ctxDone[jobs[j].ctx] /\ ctxDone'[jobs[j].ctx]) =>
            \E t \in DOMAIN threads :
              /\ Active(t)
              /\ Top(t).fn = "Run" /\ Top(t).pc = "drain"
              /\ Top(t).path = jobs[j].visitor
              /\ Top(t).backgroundJobs[Top(t).i] = j
              /\ ctxDone[Top(t).ctx]
              /\ threads'[t][Len(threads[t])].pc = "grace"]_vars

\* C33 witness: the run context is done, the job's is not, and a process
\* of the job is still running.
C33_Witness ==
  \E j \in DOMAIN jobs :
    /\ ctxDone[1] /\ jobs[j].launcher = 1
    /\ ~ctxDone[jobs[j].ctx]
    /\ \E p \in DOMAIN procs :
         /\ procs[p].ctx = jobs[j].ctx
         /\ procs[p].state = "running"

\* C34: scope of the shutdown timeout.  With N the root, on which
\* WithShutdownTimeout(T) was the last timeout set, every wait for a
\* cancelled background job during N.Run, also that of a job launched by a
\* Background node below N, is a wait of at most T.
C34_TimeoutScope ==
  \A t \in DOMAIN threads :
    (/\ Active(t) /\ threads[t][1].fn = "Run" /\ threads[t][1].path = <<>>
     /\ Top(t).fn = "Run" /\ Top(t).pc = "grace")
    => Top(t).shutdownTimeout <= tree.shutdownTimeout

\* C35: nodes are immutable.  No call of the building interface,
\* WithShutdownTimeout included, changes a field of a node that exists
\* already, so the timeout other trees see in a shared subtree stays the same.
C35_NodesImmutable ==
  [][\A n \in DOMAIN heap : n \in DOMAIN heap' /\ heap'[n] = heap[n]]_vars

\* C36: all pipe stages are awaited.  When Run of a pipe chain
\* a.Pipe(b).Pipe(c)... has returned after every stage was started, every
\* process it started has exited and has been awaited, whatever the length
\* of the chain.
C36_AllStagesAwaited ==
  (/\ returned /\ ChainStages(tree) >= 2
   /\ \A k \in DOMAIN StagesOf(<<>>) : HasProc(StagesOf(<<>>)[k]))
  => \A p \in DOMAIN procs : procs[p].state = "exited" /\ procs[p].waited

\* The left operand of Pipe q, a leaf or a nested Pipe, failed to start:
\* the context is not done, so that executePipe was reached, and
\* startProcess(left) returned an error.
LeftStartFailed(q) ==
  /\ Ran(q) /\ ~ctxDone[RunCtx(q)]
  /\ \/ OpAt(LeftOf(q)) = OpSingle /\ ~HasProc(LeftOf(q))
     \/ /\ OpAt(LeftOf(q)) = OpPipe
        /\ \E r \in rets : /\ r.fn = "startNestedPipe" /\ r.path = LeftOf(q)
                           /\ r.val.err # Nil

\* C37: Pipe left start failure.  When the left operand of a Pipe fails to
\* start, no process of the right operand is started, and the Pipe returns
\* the start error, with ExitCode -1 and two children of which the left
\* carries the error.
C37_PipeLeftStartFailure ==
  \A q \in NodesOf(OpPipe) :
    LeftStartFailed(q) =>
      LET v == RunRet(q) IN
      /\ ~Started(RightOf(q))
      /\ v.err # Nil
      /\ v.err.kind = "start"
      /\ v.res.Error = v.err
      /\ v.res.ExitCode = 0 - 1
      /\ Len(v.res.Children) = 2
      /\ v.res.Children[1].Error = v.err
      /\ v.res.Children[1].ExitCode = 0 - 1

\* C37 witness: a Pipe has returned after its left leaf could not be
\* spawned.
C37_Witness ==
  \E q \in NodesOf(OpPipe) :
    /\ LeftStartFailed(q)
    /\ OpAt(LeftOf(q)) = OpSingle
    /\ RunRet(q).err.kind = "start"
    /\ ~ctxDone[1]

\* C38: returned error and Result agree.  Whatever Run returns, for any
\* node of any tree, the Result is non-nil and the error is nil exactly
\* when the Result's Error is nil.
C38_ErrorAgreesWithResult ==
  \A ret \in rets :
    ret.fn = "Run" =>
      /\ ret.val.res # NilResult
      /\ (ret.val.err = Nil) <=> (ret.val.res.Error = Nil)

\* C38 witness: the top-level Run of a composite has returned an error that
\* came up from a leaf below it, after the context was cancelled.
C38_Witness ==
  /\ returned /\ ctxDone[1]
  /\ tree.operation # OpSingle
  /\ final.err # Nil
  /\ final.res.Error # Nil

\* The goroutine of a background job is about to send its Result.
AtSend(t) == Active(t) /\ Top(t).fn = "job" /\ Top(t).pc = "send"

\* C39: the completion channel never blocks its sender.  A job's goroutine
\* whose Run has returned can always send, with or without a receiver, and
\* then finishes (unless a panic ends the program first); the channel never
\* holds more than the one Result; and a goroutine that has finished has
\* sent exactly one, which is in the channel unless the drain received it.
C39_SendNeverBlocks ==
  /\ [](\A t \in DOMAIN threads :
          AtSend(t) => (jobs[Top(t).i].done = <<>> /\ ENABLED JobSend(t)))
  /\ [](\A j \in DOMAIN jobs :
          /\ Len(jobs[j].done) <= 1
          /\ jobs[j].done # <<>> => JobDone(j)
          /\ (JobDone(j) /\ jobs[j].abandoned) => Len(jobs[j].done) = 1)
  /\ \A t \in 2..MaxNodes :
       AtSend(t) ~> (crashed \/ (t \in DOMAIN threads /\ threads[t] = <<>>))

\* C39 witness: the top-level Run returned after abandoning a job, and the
\* job's goroutine has finished all the same, its Result left in the channel.
C39_Witness ==
  /\ returned
  /\ \E j \in DOMAIN jobs :
       /\ jobs[j].abandoned
       /\ JobDone(j)
       /\ Len(jobs[j].done) = 1
=============================================================================
